---------------------------- MODULE Spec2Model ----------------------------
(***************************************************************************)
(* mana-script: the recursive-descent Parser (src/src/parser.cpp) and the  *)
(* tree-walking Interpreter (src/unnamed/part_000, interpreter.cpp).       *)
(*                                                                         *)
(* Text (lexemes, string values, output lines) is a sequence of one-       *)
(* character strings, so that conversions (std::stod, std::to_string,      *)
(* operator<<) are computed digit by digit.  The cursor `current` is       *)
(* 0-based as in the source; TLA+ sequences are 1-based, so the token the  *)
(* source calls tokens[current] is tokens[current + 1] here.               *)
(***************************************************************************)
EXTENDS Integers, Sequences, FiniteSets, TLC

VARIABLES
    tokens,       \* Parser::tokens
    current,      \* Parser::current (0-based)
    statements,   \* the vector parse() builds, then interpret()'s argument
    diagnostics,  \* Parser::diagnostics, in report order
    pc,           \* "parse" | "parsed" | "interpret" | "done" | "faulted"
    ip,           \* number of top-level statements interpret() has begun
    variables,    \* Interpreter::variables
    lastValue,    \* Interpreter::lastValue
    out,          \* lines written to std::cout
    fault,        \* what() of the exception that left interpret(), or <<>>
    prog,         \* history: the statement templates the token stream was built from
    starts,       \* history: the cursor at which each element of statements began
    caught,       \* history: one record per exception parse() caught
    branches      \* history: one entry per if statement executed

vars == <<tokens, current, statements, diagnostics, pc, ip, variables,
          lastValue, out, fault, prog, starts, caught, branches>>

parserVars == <<tokens, current, statements, diagnostics, starts, caught, prog>>
interpVars == <<ip, variables, lastValue, out, fault, branches>>

(***************************************************************************)
(* Bounds of the model.                                                    *)
(***************************************************************************)
MaxLen == 4
MaxStmts == 3
MaxInt == 3

(***************************************************************************)
(* Tokens.                                                                 *)
(***************************************************************************)
Token(type, lexeme) == [type |-> type, lexeme |-> lexeme]

EOF == Token("END_OF_FILE", <<>>)

Digits == <<"0", "1", "2", "3", "4", "5", "6", "7", "8", "9">>

IsDigit(ch) == \E i \in 1..10 : Digits[i] = ch

DigitVal(ch) == (CHOOSE i \in 1..10 : Digits[i] = ch) - 1

(***************************************************************************)
(* AST nodes (ast.hpp constructors used by the parser).                    *)
(***************************************************************************)
Null == [kind |-> "null"]

LiteralExpr(v) == [kind |-> "Literal", value |-> v]
UnaryExpr(op, right) == [kind |-> "Unary", op |-> op, right |-> right]
BinaryExpr(left, op, right) == [kind |-> "Binary", left |-> left, op |-> op, right |-> right]
GroupingExpr(e) == [kind |-> "Grouping", expression |-> e]
VariableExpr(name) == [kind |-> "Variable", name |-> name]
AssignExpr(name, value) == [kind |-> "Assign", name |-> name, value |-> value]
CallExpr(callee, arguments) == [kind |-> "Call", callee |-> callee, arguments |-> arguments]

ExpressionStmt(e) == [kind |-> "ExpressionStmt", expression |-> e]
VarDeclStmt(name, init, is_const) ==
    [kind |-> "VarDecl", name |-> name, initializer |-> init, is_const |-> is_const]
BlockStmt(stmts) == [kind |-> "Block", statements |-> stmts]
IfStmt(c, t, e) == [kind |-> "If", condition |-> c, thenBranch |-> t, elseBranch |-> e]
WhileStmt(c, b) == [kind |-> "While", condition |-> c, body |-> b]
ReturnStmt(v) == [kind |-> "Return", value |-> v]

(***************************************************************************)
(* Values: std::variant<int, double, std::string, bool, std::nullptr_t>.   *)
(* A double is kept as an exact fraction n/d in lowest terms, d > 0.       *)
(***************************************************************************)
RECURSIVE Gcd(_, _)
Gcd(a, b) == IF b = 0 THEN a ELSE Gcd(b, a % b)

Abs(a) == IF a < 0 THEN -a ELSE a

IntV(v) == [kind |-> "int", v |-> v]
DoubleV(n, d) ==
    LET s == IF d < 0 THEN -1 ELSE 1
        g == Gcd(Abs(n), Abs(d))
    IN [kind |-> "double", n |-> (s * n) \div g, d |-> (s * d) \div g]
StringV(s) == [kind |-> "string", v |-> s]
BoolV(b) == [kind |-> "bool", v |-> b]
NilV == [kind |-> "nil"]


(***************************************************************************)
(* Text helpers.                                                           *)
(***************************************************************************)
RECURSIVE IndexOf(_, _, _)
\* the first position >= i of ch in s, or 0
IndexOf(s, ch, i) ==
    IF i > Len(s) THEN 0 ELSE IF s[i] = ch THEN i ELSE IndexOf(s, ch, i + 1)

RECURSIVE Pow10(_)
Pow10(k) == IF k <= 0 THEN 1 ELSE 10 * Pow10(k - 1)

RECURSIVE DigitsValue(_)
\* the number a run of decimal digits denotes
DigitsValue(s) ==
    IF s = <<>> THEN 0
    ELSE 10 * DigitsValue(SubSeq(s, 1, Len(s) - 1)) + DigitVal(s[Len(s)])

RECURSIVE StripLeadingZeros(_)
StripLeadingZeros(s) ==
    IF s # <<>> /\ s[1] = "0" THEN StripLeadingZeros(Tail(s)) ELSE s

RECURSIVE StripTrailingZeros(_)
StripTrailingZeros(s) ==
    IF s # <<>> /\ s[Len(s)] = "0"
    THEN StripTrailingZeros(SubSeq(s, 1, Len(s) - 1)) ELSE s

RECURSIVE Zeros(_)
Zeros(k) == IF k <= 0 THEN <<>> ELSE <<"0">> \o Zeros(k - 1)

IsDigits(s) == \A i \in 1..Len(s) : IsDigit(s[i])

(***************************************************************************)
(* std::stod as primary() uses it on a numeric token's lexeme: the value,  *)
(* or std::invalid_argument when no conversion can be performed, or        *)
(* std::out_of_range when the value is beyond the range of double.         *)
(* Lexemes have the form  digits [. digits] [e [+|-] digits].              *)
(***************************************************************************)
DBL_MAX_10_EXP == 308

stod(lexeme) ==
    LET ePos == IndexOf(lexeme, "e", 1)
        mant == IF ePos = 0 THEN lexeme ELSE SubSeq(lexeme, 1, ePos - 1)
        expo == IF ePos = 0 THEN <<>> ELSE SubSeq(lexeme, ePos + 1, Len(lexeme))
        dot  == IndexOf(mant, ".", 1)
        ipart == IF dot = 0 THEN mant ELSE SubSeq(mant, 1, dot - 1)
        fpart == IF dot = 0 THEN <<>> ELSE SubSeq(mant, dot + 1, Len(mant))
        neg  == expo # <<>> /\ expo[1] = "-"
        edig == IF expo # <<>> /\ expo[1] \in {"-", "+"} THEN Tail(expo) ELSE expo
        e10  == IF neg THEN -DigitsValue(edig) ELSE DigitsValue(edig)
        sig  == StripLeadingZeros(ipart \o fpart)
        \* decimal exponent of the leading significant digit
        mag  == Len(StripLeadingZeros(ipart)) - 1 + e10
    IN  IF ipart \o fpart = <<>> \/ ~IsDigits(ipart \o fpart) \/ ~IsDigits(edig)
        THEN [exc |-> "invalid_argument"]
        ELSE IF sig # <<>> /\ mag > DBL_MAX_10_EXP
        THEN [exc |-> "out_of_range"]
        ELSE [exc |-> "none",
              value |-> DoubleV(DigitsValue(ipart \o fpart) * Pow10(e10),
                                Pow10(Len(fpart)) * Pow10(-e10))]

(***************************************************************************)
(* Rendering: std::to_string(int) and operator<< for int are the decimal   *)
(* text; operator<< for double is printf's %g with precision 6.            *)
(***************************************************************************)
RECURSIVE NatToText(_)
NatToText(i) ==
    IF i < 10 THEN <<Digits[i + 1]>>
    ELSE NatToText(i \div 10) \o <<Digits[(i % 10) + 1]>>

to_string(i) == IF i < 0 THEN <<"-">> \o NatToText(-i) ELSE NatToText(i)

RECURSIVE Exp10Up(_, _, _)
\* for n >= d: the largest e with d * 10^e <= n
Exp10Up(n, d, e) == IF n >= d * 10 THEN Exp10Up(n, d * 10, e + 1) ELSE e

RECURSIVE Exp10Down(_, _, _)
\* for n < d: the largest (negative) e with 10^e <= n/d
Exp10Down(n, d, e) == IF n < d THEN Exp10Down(n * 10, d, e - 1) ELSE e

RoundHalfEven(n, d) ==
    LET q == n \div d
        r == n % d
    IN  IF 2 * r > d \/ (2 * r = d /\ q % 2 = 1) THEN q + 1 ELSE q

Precision == 6

RenderDouble(v) ==
    LET n == Abs(v.n)
        d == v.d
        sign == IF v.n < 0 THEN <<"-">> ELSE <<>>
        e0 == IF n >= d THEN Exp10Up(n, d, 0) ELSE Exp10Down(n, d, 0)
        sc == Precision - 1 - e0
        m0 == IF sc >= 0 THEN RoundHalfEven(n * Pow10(sc), d)
              ELSE RoundHalfEven(n, d * Pow10(-sc))
        carry == m0 = Pow10(Precision)
        m == IF carry THEN Pow10(Precision - 1) ELSE m0
        e == IF carry THEN e0 + 1 ELSE e0
        txt == NatToText(m)
        frac == StripTrailingZeros(SubSeq(txt, 2, Precision))
        ae == Abs(e)
    IN  IF n = 0 THEN <<"0">>
        ELSE IF e < -4 \/ e >= Precision
        THEN sign \o <<txt[1]>> \o (IF frac = <<>> THEN <<>> ELSE <<".">> \o frac)
             \o <<"e", IF e < 0 THEN "-" ELSE "+">>
             \o (IF ae < 10 THEN <<"0">> ELSE <<>>) \o NatToText(ae)
        ELSE IF e >= 0
        THEN LET f == StripTrailingZeros(SubSeq(txt, e + 2, Precision))
             IN sign \o SubSeq(txt, 1, e + 1)
                \o (IF f = <<>> THEN <<>> ELSE <<".">> \o f)
        ELSE sign \o <<"0", ".">> \o Zeros(-e - 1) \o StripTrailingZeros(txt)

\* the line visitCallExpr writes for an argument value
Render(v) ==
    CASE v.kind = "int" -> to_string(v.v)
      [] v.kind = "double" -> RenderDouble(v)
      [] v.kind = "string" -> v.v
      [] v.kind = "bool" -> IF v.v THEN <<"t", "r", "u", "e">> ELSE <<"f", "a", "l", "s", "e">>
      [] v.kind = "nil" -> <<"n", "i", "l">>

(***************************************************************************)
(* Parser: cursor primitives.  Every parsing routine below takes the       *)
(* cursor it starts at and yields a record                                 *)
(*    [exc, node, cur, diags]                                              *)
(* exc: "none", or the exception that left the routine; node: the AST      *)
(* built; cur: Parser::current when the routine returned or threw; diags:  *)
(* the diagnostics it reported, in order.                                  *)
(***************************************************************************)
peek(c) == tokens[c + 1]

isAtEnd(c) == peek(c).type = "END_OF_FILE"

previous(c) == tokens[c]

\* advance without its test for the end of the tokens
advance_Unguarded(c) == c + 1

advance(c) == IF ~isAtEnd(c) THEN c + 1 ELSE c

check(c, type) == IF isAtEnd(c) THEN FALSE ELSE peek(c).type = type

checkAny(c, types) == \E t \in types : check(c, t)

Ok(node, cur, diags) == [exc |-> "none", node |-> node, cur |-> cur, diags |-> diags]

Thrown(exc, cur, diags) == [exc |-> exc, node |-> Null, cur |-> cur, diags |-> diags]

\* Parser::error: the diagnostic reported for the token at cursor c
error(c, message) ==
    [message |-> message,
     atEnd   |-> peek(c).type = "END_OF_FILE",
     lexeme  |-> peek(c).lexeme,
     index   |-> c]

consume(c, type, message) ==
    IF check(c, type) THEN Ok(Null, advance(c), <<>>)
    ELSE Thrown("ParseError", c, <<error(c, message)>>)

RECURSIVE synchronizeLoop(_)
\* the while loop of synchronize
synchronizeLoop(c) ==
    IF isAtEnd(c) THEN c
    ELSE IF previous(c).type = "SEMICOLON" THEN c
    ELSE IF peek(c).type \in {"FUNCTION", "VAR", "CONST", "FOR", "IF", "WHILE", "RETURN"}
    THEN c
    ELSE synchronizeLoop(advance(c))

\* synchronize without the advance() that opens it
synchronize_NoAdvance(c) ==
    IF isAtEnd(c) \/ c = 0 THEN c
    ELSE synchronizeLoop(c)

synchronize(c) == synchronizeLoop(advance(c))

RECURSIVE synchronizeLoopReads(_)
\* the cursor values with which the while loop of synchronize, entered at
\* c, calls previous()
synchronizeLoopReads(c) ==
    IF isAtEnd(c) THEN {}
    ELSE IF c = 0 THEN {c}
    ELSE IF previous(c).type = "SEMICOLON" THEN {c}
    ELSE IF peek(c).type \in {"FUNCTION", "VAR", "CONST", "FOR", "IF", "WHILE", "RETURN"}
    THEN {c}
    ELSE {c, advance(c)} \cup synchronizeLoopReads(advance(c))

\* the cursor values with which synchronize(), called at c, calls previous():
\* in its opening advance(), in the test of its loop and in the advance()
\* that ends a turn of the loop
synchronizeReads(c) == {advance(c)} \cup synchronizeLoopReads(advance(c))

\* the result r with the diagnostics `before` in front of its own
Prefix(before, r) == [r EXCEPT !.diags = before \o r.diags]

MaxArguments == 255

(***************************************************************************)
(* Parser: expressions.  A routine that is entered again while it is       *)
(* running (expression, statement, declaration) is called through Parse,   *)
(* which dispatches on the routine's name.                                 *)
(***************************************************************************)
RECURSIVE Parse(_, _)

\* one turn of a binary level's while loop: the operator at l.cur has been
\* matched, `right` is the operand parsed after it
BinaryTurn(l, right) ==
    IF right.exc # "none" THEN Prefix(l.diags, right)
    ELSE Ok(BinaryExpr(l.node, peek(l.cur).type, right.node), right.cur,
            l.diags \o right.diags)

\* the loop condition of a binary level: the left operand was parsed and
\* the next token is one of the level's operators
Matches(l, types) == l.exc = "none" /\ checkAny(l.cur, types)

\* the while loops of the binary levels, tightest first; a loop's right
\* operand is parsed by the routine of the next tighter level
RECURSIVE factorLoop(_)
factorLoop(l) ==
    IF Matches(l, {"SLASH", "STAR", "PERCENT"})
    THEN factorLoop(BinaryTurn(l, Parse("unary", advance(l.cur))))
    ELSE l

factor(c) == factorLoop(Parse("unary", c))

RECURSIVE termLoop(_)
\* term taking its right operand from unary instead of factor
termLoop_RightOperandUnary(l) ==
    IF Matches(l, {"MINUS", "PLUS"})
    THEN termLoop(BinaryTurn(l, Parse("unary", advance(l.cur))))
    ELSE l

termLoop(l) ==
    IF Matches(l, {"MINUS", "PLUS"})
    THEN termLoop(BinaryTurn(l, Parse("factor", advance(l.cur))))
    ELSE l

term(c) == termLoop(factor(c))

RECURSIVE comparisonLoop(_)
comparisonLoop(l) ==
    IF Matches(l, {"GREATER", "GREATER_EQUAL", "LESS", "LESS_EQUAL"})
    THEN comparisonLoop(BinaryTurn(l, Parse("term", advance(l.cur))))
    ELSE l

comparison(c) == comparisonLoop(term(c))

RECURSIVE equalityLoop(_)
equalityLoop(l) ==
    IF Matches(l, {"BANG_EQUAL", "EQUAL_EQUAL"})
    THEN equalityLoop(BinaryTurn(l, Parse("comparison", advance(l.cur))))
    ELSE l

equality(c) == equalityLoop(comparison(c))

RECURSIVE logicalAndLoop(_)
logicalAndLoop(l) ==
    IF Matches(l, {"AND"})
    THEN logicalAndLoop(BinaryTurn(l, Parse("equality", advance(l.cur))))
    ELSE l

logicalAnd(c) == logicalAndLoop(equality(c))

RECURSIVE logicalOrLoop(_)
logicalOrLoop(l) ==
    IF Matches(l, {"OR"})
    THEN logicalOrLoop(BinaryTurn(l, Parse("logicalAnd", advance(l.cur))))
    ELSE l

\* logicalOr calls logicalAnd first, which calls equality first, and so on
\* down to unary: the results of the levels in the order they return,
\* <<unary, factor, term, comparison, equality, logicalAnd, logicalOr>>
levels(c) ==
    LET u == Parse("unary", c)
        f == factorLoop(u)
        t == termLoop(f)
        cmp == comparisonLoop(t)
        eq == equalityLoop(cmp)
        land == logicalAndLoop(eq)
        lor == logicalOrLoop(land)
    IN  <<u, f, t, cmp, eq, land, lor>>

logicalOr(c) == levels(c)[7]

assignment(c) ==
    LET expr == logicalOr(c) IN
    IF expr.exc = "none" /\ check(expr.cur, "EQUAL")
    THEN LET value == Parse("assignment", advance(expr.cur)) IN
         IF value.exc # "none" THEN Prefix(expr.diags, value)
         ELSE IF expr.node.kind = "Variable"
         THEN Ok(AssignExpr(expr.node.name, value.node), value.cur,
                 expr.diags \o value.diags)
         ELSE Ok(expr.node, value.cur,
                 expr.diags \o value.diags
                     \o <<error(expr.cur, "Invalid assignment target")>>)
    ELSE expr

expression(c) == assignment(c)

\* the do-while of finishCall: `arguments` parsed so far, `diags` reported
\* so far, cursor at the next argument
RECURSIVE finishCallArgs(_, _, _)
finishCallArgs(arguments, diags, c) ==
    LET tooMany == IF Len(arguments) >= MaxArguments
                   THEN <<error(c, "Cannot have more than 255 arguments.")>>
                   ELSE <<>>
        arg == Parse("expression", c)
    IN  IF arg.exc # "none" THEN Prefix(diags \o tooMany, arg)
        ELSE IF check(arg.cur, "COMMA")
        THEN finishCallArgs(Append(arguments, arg.node),
                            diags \o tooMany \o arg.diags, advance(arg.cur))
        ELSE Ok(Append(arguments, arg.node), arg.cur, diags \o tooMany \o arg.diags)

finishCall(callee, c) ==
    LET arguments == IF ~check(c, "RIGHT_PAREN") THEN finishCallArgs(<<>>, <<>>, c)
                     ELSE Ok(<<>>, c, <<>>)
    IN  IF arguments.exc # "none" THEN arguments
        ELSE LET paren == consume(arguments.cur, "RIGHT_PAREN",
                                  "Expect ')' after arguments.")
             IN  IF paren.exc # "none" THEN Prefix(arguments.diags, paren)
                 ELSE Ok(CallExpr(callee, arguments.node), paren.cur, arguments.diags)

primary(c) ==
    CASE check(c, "FALSE") -> Ok(LiteralExpr(BoolV(FALSE)), advance(c), <<>>)
      [] check(c, "TRUE") -> Ok(LiteralExpr(BoolV(TRUE)), advance(c), <<>>)
      [] check(c, "NIL") -> Ok(LiteralExpr(NilV), advance(c), <<>>)
      [] checkAny(c, {"INTEGER_LITERAL", "FLOAT_LITERAL"}) ->
            LET value == stod(peek(c).lexeme) IN
            IF value.exc # "none" THEN Thrown(value.exc, advance(c), <<>>)
            ELSE Ok(LiteralExpr(value.value), advance(c), <<>>)
      [] check(c, "STRING_LITERAL") ->
            Ok(LiteralExpr(StringV(peek(c).lexeme)), advance(c), <<>>)
      [] check(c, "IDENTIFIER") -> Ok(VariableExpr(peek(c).lexeme), advance(c), <<>>)
      [] check(c, "LEFT_PAREN") ->
            LET expr == Parse("expression", advance(c)) IN
            IF expr.exc # "none" THEN expr
            ELSE LET paren == consume(expr.cur, "RIGHT_PAREN",
                                      "Expect ')' after expression.")
                 IN  IF paren.exc # "none" THEN Prefix(expr.diags, paren)
                     ELSE Ok(GroupingExpr(expr.node), paren.cur, expr.diags)
      [] OTHER -> Thrown("ParseError", c, <<error(c, "Expect expression.")>>)

\* the while loop of call: `expr` is the callee parsed so far
RECURSIVE callLoop(_)
callLoop(expr) ==
    IF expr.exc = "none" /\ check(expr.cur, "LEFT_PAREN")
    THEN callLoop(Prefix(expr.diags, finishCall(expr.node, advance(expr.cur))))
    ELSE expr

call(c) == callLoop(primary(c))

unary(c) ==
    IF checkAny(c, {"BANG", "MINUS"})
    THEN LET right == Parse("unary", advance(c)) IN
         IF right.exc # "none" THEN right
         ELSE Ok(UnaryExpr(peek(c).type, right.node), right.cur, right.diags)
    ELSE call(c)

(***************************************************************************)
(* Parser: statements.                                                     *)
(***************************************************************************)

\* consume(type, message) called after the step r: r's node and
\* diagnostics are kept
Expect(r, type, message) ==
    LET t == consume(r.cur, type, message) IN
    IF t.exc # "none" THEN Prefix(r.diags, t) ELSE [r EXCEPT !.cur = t.cur]

printStatement(c) ==
    LET value == Parse("expression", c)
        semi == Expect(value, "SEMICOLON", "Expect ';' after value.")
    IN  IF value.exc # "none" THEN value
        ELSE IF semi.exc # "none" THEN semi
        ELSE Ok(ExpressionStmt(value.node), semi.cur, semi.diags)

returnStatement(c) ==
    LET value == IF ~check(c, "SEMICOLON") THEN Parse("expression", c)
                 ELSE Ok(Null, c, <<>>)
        semi == Expect(value, "SEMICOLON", "Expect ';' after return value")
    IN  IF value.exc # "none" THEN value
        ELSE IF semi.exc # "none" THEN semi
        ELSE Ok(ReturnStmt(value.node), semi.cur, semi.diags)

expressionStatement(c) ==
    LET expr == Parse("expression", c)
        semi == Expect(expr, "SEMICOLON", "Expect ';' after expression")
    IN  IF expr.exc # "none" THEN expr
        ELSE IF semi.exc # "none" THEN semi
        ELSE Ok(ExpressionStmt(expr.node), semi.cur, semi.diags)

varDeclaration(c, is_const) ==
    LET name == consume(c, "IDENTIFIER", "Expect variable name")
        initializer ==
            IF check(name.cur, "EQUAL") THEN Parse("expression", advance(name.cur))
            ELSE IF is_const
            THEN Thrown("ParseError", name.cur,
                        <<error(c, "Const declarations must have an initializer")>>)
            ELSE Ok(Null, name.cur, <<>>)
        semi == Expect(initializer, "SEMICOLON",
                       "Expect ';' after variable declaration")
    IN  IF name.exc # "none" THEN name
        ELSE IF initializer.exc # "none" THEN initializer
        ELSE IF semi.exc # "none" THEN semi
        ELSE Ok(VarDeclStmt(peek(c).lexeme, initializer.node, is_const),
                semi.cur, semi.diags)

ifStatement(c) ==
    LET lp == consume(c, "LEFT_PAREN", "Expect '(' after 'if'")
        condition == Parse("expression", lp.cur)
        rp == Expect(condition, "RIGHT_PAREN", "Expect ')' after if condition")
        thenBranch == Parse("statement", rp.cur)
        elseBranch == Parse("statement", advance(thenBranch.cur))
    IN  IF lp.exc # "none" THEN lp
        ELSE IF condition.exc # "none" THEN condition
        ELSE IF rp.exc # "none" THEN rp
        ELSE IF thenBranch.exc # "none" THEN Prefix(rp.diags, thenBranch)
        ELSE IF ~check(thenBranch.cur, "ELSE")
        THEN Ok(IfStmt(condition.node, thenBranch.node, Null), thenBranch.cur,
                rp.diags \o thenBranch.diags)
        ELSE IF elseBranch.exc # "none"
        THEN Prefix(rp.diags \o thenBranch.diags, elseBranch)
        ELSE Ok(IfStmt(condition.node, thenBranch.node, elseBranch.node),
                elseBranch.cur, rp.diags \o thenBranch.diags \o elseBranch.diags)

whileStatement(c) ==
    LET lp == consume(c, "LEFT_PAREN", "Expect '(' after 'while'")
        condition == Parse("expression", lp.cur)
        rp == Expect(condition, "RIGHT_PAREN", "Expect ')' after while condition")
        body == Parse("statement", rp.cur)
    IN  IF lp.exc # "none" THEN lp
        ELSE IF condition.exc # "none" THEN condition
        ELSE IF rp.exc # "none" THEN rp
        ELSE IF body.exc # "none" THEN Prefix(rp.diags, body)
        ELSE Ok(WhileStmt(condition.node, body.node), body.cur,
                rp.diags \o body.diags)

\* nothing in this file calls forStatement: statement() has no case for FOR
forStatement(c) ==
    LET lp == consume(c, "LEFT_PAREN", "Expect '(' after 'for'")
        initializer ==
            IF check(lp.cur, "SEMICOLON") THEN Ok(Null, advance(lp.cur), <<>>)
            ELSE IF check(lp.cur, "VAR") THEN varDeclaration(advance(lp.cur), FALSE)
            ELSE expressionStatement(lp.cur)
        condition ==
            IF ~check(initializer.cur, "SEMICOLON")
            THEN Prefix(initializer.diags, Parse("expression", initializer.cur))
            ELSE Ok(Null, initializer.cur, initializer.diags)
        semi == Expect(condition, "SEMICOLON", "Expect ';' after loop condition")
        increment ==
            IF ~check(semi.cur, "RIGHT_PAREN")
            THEN Prefix(semi.diags, Parse("expression", semi.cur))
            ELSE Ok(Null, semi.cur, semi.diags)
        rp == Expect(increment, "RIGHT_PAREN", "Expect ')' after for clauses")
        body == Prefix(rp.diags, Parse("statement", rp.cur))
        stepped == IF increment.node # Null
                   THEN BlockStmt(<<body.node, ExpressionStmt(increment.node)>>)
                   ELSE body.node
        loop == WhileStmt(IF condition.node = Null THEN LiteralExpr(BoolV(TRUE))
                          ELSE condition.node, stepped)
    IN  IF lp.exc # "none" THEN lp
        ELSE IF initializer.exc # "none" THEN initializer
        ELSE IF condition.exc # "none" THEN condition
        ELSE IF semi.exc # "none" THEN semi
        ELSE IF increment.exc # "none" THEN increment
        ELSE IF rp.exc # "none" THEN rp
        ELSE IF body.exc # "none" THEN body
        ELSE Ok(IF initializer.node # Null THEN BlockStmt(<<initializer.node, loop>>)
                ELSE loop, body.cur, body.diags)

\* the while loop of block: acc.node is the vector built so far
RECURSIVE blockLoop(_)
blockLoop(acc) ==
    IF acc.exc # "none" \/ check(acc.cur, "RIGHT_BRACE") \/ isAtEnd(acc.cur) THEN acc
    ELSE LET d == Parse("declaration", acc.cur) IN
         IF d.exc # "none" THEN Prefix(acc.diags, d)
         ELSE blockLoop(Ok(Append(acc.node, d.node), d.cur, acc.diags \o d.diags))

block(c) ==
    LET stmts == blockLoop(Ok(<<>>, c, <<>>)) IN
    IF stmts.exc # "none" THEN stmts
    ELSE Expect(stmts, "RIGHT_BRACE", "Expect '}' after block")

statement(c) ==
    CASE check(c, "IF") -> ifStatement(advance(c))
      [] check(c, "WHILE") -> whileStatement(advance(c))
      [] check(c, "PRINT") -> printStatement(advance(c))
      [] check(c, "RETURN") -> returnStatement(advance(c))
      [] check(c, "LEFT_BRACE") ->
            LET b == block(advance(c)) IN
            IF b.exc # "none" THEN b ELSE Ok(BlockStmt(b.node), b.cur, b.diags)
      [] OTHER -> expressionStatement(c)

declaration(c) ==
    IF check(c, "VAR") THEN varDeclaration(advance(c), FALSE)
    ELSE Parse("statement", c)

\* the routine `rule` called with the cursor c
Parse(rule, c) ==
    CASE rule = "expression" -> expression(c)
      [] rule = "assignment" -> assignment(c)
      [] rule = "logicalAnd" -> logicalAnd(c)
      [] rule = "equality" -> equality(c)
      [] rule = "comparison" -> comparison(c)
      [] rule = "term" -> term(c)
      [] rule = "factor" -> factor(c)
      [] rule = "unary" -> unary(c)
      [] rule = "statement" -> statement(c)
      [] rule = "declaration" -> declaration(c)

(***************************************************************************)
(* Interpreter.  The interpreter's state while a statement runs is a       *)
(* record [variables, lastValue, out, branches, fault]; fault is <<>>      *)
(* until a std::runtime_error is thrown, and then holds its message.  A    *)
(* visitor that throws keeps the writes made before the throw.             *)
(***************************************************************************)
NoFault == <<>>

Faulted(s) == s.fault # NoFault

Throw(s, what) == [s EXCEPT !.fault = what]

Return(s, v) == [s EXCEPT !.lastValue = v]

IsNum(v) == v.kind \in {"int", "double"}

\* C++ integer division truncates toward zero
TruncDiv(a, b) ==
    LET q == Abs(a) \div Abs(b) IN IF (a < 0) # (b < 0) THEN -q ELSE q

DAdd(a, b) == DoubleV(a.n * b.d + b.n * a.d, a.d * b.d)
DSub(a, b) == DoubleV(a.n * b.d - b.n * a.d, a.d * b.d)
DMul(a, b) == DoubleV(a.n * b.n, a.d * b.d)
DDiv(a, b) == DoubleV(a.n * b.d, a.d * b.n)
DLess(a, b) == a.n * b.d < b.n * a.d

\* visitUnaryExpr after its operand is evaluated: [fault, value]
UnaryOp(op, right) ==
    IF op = "MINUS" THEN
        IF right.kind = "int" THEN [fault |-> NoFault, value |-> IntV(-right.v)]
        ELSE IF right.kind = "double"
        THEN [fault |-> NoFault, value |-> DoubleV(-right.n, right.d)]
        ELSE [fault |-> <<"Unary minus on non-number">>, value |-> right]
    ELSE IF op = "BANG" THEN
        IF right.kind = "bool" THEN [fault |-> NoFault, value |-> BoolV(~right.v)]
        ELSE [fault |-> <<"Unary ! on non-bool">>, value |-> right]
    ELSE [fault |-> NoFault, value |-> right]

\* the int alternative of the arithmetic and ordering cases
IntOp(op, a, b) ==
    CASE op = "MINUS" -> IntV(a - b)
      [] op = "STAR" -> IntV(a * b)
      [] op = "LESS" -> BoolV(a < b)
      [] op = "LESS_EQUAL" -> BoolV(a <= b)
      [] op = "GREATER" -> BoolV(a > b)
      [] op = "GREATER_EQUAL" -> BoolV(a >= b)

\* the double alternative of the arithmetic and ordering cases
DoubleOp(op, a, b) ==
    CASE op = "MINUS" -> DSub(a, b)
      [] op = "STAR" -> DMul(a, b)
      [] op = "LESS" -> BoolV(DLess(a, b))
      [] op = "LESS_EQUAL" -> BoolV(~DLess(b, a))
      [] op = "GREATER" -> BoolV(DLess(b, a))
      [] op = "GREATER_EQUAL" -> BoolV(~DLess(a, b))

\* the cases MINUS, STAR and the four orderings of visitBinaryExpr's switch
\* share one shape: both int, both double, or a runtime_error
Arith(op, left, right, what) ==
    IF left.kind = "int" /\ right.kind = "int"
    THEN [fault |-> NoFault, value |-> IntOp(op, left.v, right.v)]
    ELSE IF left.kind = "double" /\ right.kind = "double"
    THEN [fault |-> NoFault, value |-> DoubleOp(op, left, right)]
    ELSE [fault |-> <<what>>, value |-> right]

Slash_NoZeroCheck(left, right) ==
    IF left.kind = "int" /\ right.kind = "int"
    THEN [fault |-> NoFault,
          value |-> IF right.v = 0 THEN IntV(0) ELSE IntV(TruncDiv(left.v, right.v))]
    ELSE IF left.kind = "double" /\ right.kind = "double"
    THEN [fault |-> NoFault,
          value |-> IF right.n = 0 THEN DoubleV(0, 1) ELSE DDiv(left, right)]
    ELSE [fault |-> <<"Invalid operands to /">>, value |-> right]

Slash(left, right) ==
    IF left.kind = "int" /\ right.kind = "int" THEN
        IF right.v = 0 THEN [fault |-> <<"Division by zero">>, value |-> right]
        ELSE [fault |-> NoFault, value |-> IntV(TruncDiv(left.v, right.v))]
    ELSE IF left.kind = "double" /\ right.kind = "double" THEN
        IF right.n = 0 THEN [fault |-> <<"Division by zero">>, value |-> right]
        ELSE [fault |-> NoFault, value |-> DDiv(left, right)]
    ELSE [fault |-> <<"Invalid operands to /">>, value |-> right]

Plus(left, right) ==
    IF left.kind = "int" /\ right.kind = "int"
    THEN [fault |-> NoFault, value |-> IntV(left.v + right.v)]
    ELSE IF left.kind = "double" /\ right.kind = "double"
    THEN [fault |-> NoFault, value |-> DAdd(left, right)]
    ELSE IF left.kind = "string" /\ right.kind = "string"
    THEN [fault |-> NoFault, value |-> StringV(left.v \o right.v)]
    ELSE IF left.kind = "string" /\ right.kind = "int"
    THEN [fault |-> NoFault, value |-> StringV(left.v \o to_string(right.v))]
    ELSE IF left.kind = "int" /\ right.kind = "string"
    THEN [fault |-> NoFault, value |-> StringV(to_string(left.v) \o right.v)]
    ELSE [fault |-> <<"Invalid operands to +">>, value |-> right]

\* operator== of the variant: the same alternative holding an equal value
ValueEq(a, b) == a.kind = b.kind /\ a = b

\* visitBinaryExpr after both operands are evaluated: [fault, value]
BinaryOp(op, left, right) ==
    CASE op = "PLUS" -> Plus(left, right)
      [] op = "MINUS" -> Arith(op, left, right, "Invalid operands to -")
      [] op = "STAR" -> Arith(op, left, right, "Invalid operands to *")
      [] op = "SLASH" -> Slash(left, right)
      [] op = "EQUAL_EQUAL" -> [fault |-> NoFault, value |-> BoolV(ValueEq(left, right))]
      [] op = "BANG_EQUAL" -> [fault |-> NoFault, value |-> BoolV(~ValueEq(left, right))]
      [] op = "LESS" -> Arith(op, left, right, "Invalid operands to <")
      [] op = "LESS_EQUAL" -> Arith(op, left, right, "Invalid operands to <=")
      [] op = "GREATER" -> Arith(op, left, right, "Invalid operands to >")
      [] op = "GREATER_EQUAL" -> Arith(op, left, right, "Invalid operands to >=")
      [] OTHER -> [fault |-> <<"Unknown binary operator">>, value |-> right]

\* variables[name] = value
Bind(vs, name, value) ==
    [n \in DOMAIN vs \cup {name} |-> IF n = name THEN value ELSE vs[n]]

PrintName == <<"p", "r", "i", "n", "t">>

\* a [fault, value] result taken into the state s: throw, or set lastValue
Apply(s, r) == IF r.fault # NoFault THEN Throw(s, r.fault) ELSE Return(s, r.value)

\* variables[name] = lastValue
Store(s, name) == [s EXCEPT !.variables = Bind(s.variables, name, s.lastValue)]

RECURSIVE evaluate(_, _)

\* the for loop of visitCallExpr over the arguments from position i on
RECURSIVE printArguments(_, _, _)
printArguments(arguments, i, s) ==
    IF i > Len(arguments) THEN Return(s, NilV)
    ELSE LET v == evaluate(arguments[i], s) IN
         IF Faulted(v) THEN v
         ELSE printArguments(arguments, i + 1,
                             [v EXCEPT !.out = Append(v.out, Render(v.lastValue))])

evaluate(expr, s) ==
    CASE expr.kind = "Literal" -> Return(s, expr.value)
      [] expr.kind = "Unary" ->
            LET right == evaluate(expr.right, s) IN
            IF Faulted(right) THEN right
            ELSE Apply(right, UnaryOp(expr.op, right.lastValue))
      [] expr.kind = "Binary" ->
            LET left == evaluate(expr.left, s)
                right == evaluate(expr.right, left)
            IN  IF Faulted(left) THEN left
                ELSE IF Faulted(right) THEN right
                ELSE Apply(right, BinaryOp(expr.op, left.lastValue, right.lastValue))
      [] expr.kind = "Grouping" -> evaluate(expr.expression, s)
      [] expr.kind = "Variable" ->
            IF expr.name \notin DOMAIN s.variables
            THEN Throw(s, <<"Undefined variable: ", expr.name>>)
            ELSE Return(s, s.variables[expr.name])
      [] expr.kind = "Assign" ->
            LET value == evaluate(expr.value, s) IN
            IF Faulted(value) THEN value ELSE Store(value, expr.name)
      [] expr.kind = "Call" ->
            IF expr.callee.kind = "Variable" /\ expr.callee.name = PrintName
            THEN printArguments(expr.arguments, 1, s)
            ELSE Throw(s, <<"Only print() is supported as a built-in function">>)

RECURSIVE execute(_, _)

\* the for loop of visitBlockStmt from position i on
RECURSIVE executeAll(_, _, _)
executeAll(stmts, i, s) ==
    IF i > Len(stmts) THEN s
    ELSE LET r == execute(stmts[i], s) IN
         IF Faulted(r) THEN r ELSE executeAll(stmts, i + 1, r)

\* history: the if statement whose condition evaluated to cond went `which` way
Took(s, cond, which) ==
    [s EXCEPT !.branches = Append(s.branches, [cond |-> cond, taken |-> which])]

\* visitIfStmt once its condition is evaluated into lastValue
ifBranch(stmt, s) ==
    LET condVal == s.lastValue IN
    IF condVal.kind = "bool" \/ condVal.kind = "int"
    THEN IF (IF condVal.kind = "bool" THEN condVal.v ELSE condVal.v # 0)
         THEN execute(stmt.thenBranch, Took(s, condVal, "then"))
         ELSE IF stmt.elseBranch # Null
         THEN execute(stmt.elseBranch, Took(s, condVal, "else"))
         ELSE Took(s, condVal, "none")
    ELSE Throw(Took(s, condVal, "fault"), <<"Invalid condition in if statement">>)

execute(stmt, s) ==
    CASE stmt.kind = "ExpressionStmt" -> evaluate(stmt.expression, s)
      [] stmt.kind = "VarDecl" ->
            LET value == IF stmt.initializer # Null THEN evaluate(stmt.initializer, s)
                         ELSE Return(s, NilV)
            IN  IF Faulted(value) THEN value ELSE Store(value, stmt.name)
      [] stmt.kind = "Block" -> executeAll(stmt.statements, 1, s)
      [] stmt.kind = "If" ->
            LET cond == evaluate(stmt.condition, s) IN
            IF Faulted(cond) THEN cond ELSE ifBranch(stmt, cond)
      [] stmt.kind \in {"While", "Function", "Return"} -> s

(***************************************************************************)
(* The token streams the lexer hands to the parser.                        *)
(***************************************************************************)
Sym(type) == Token(type, <<type>>)
Ident(name) == Token("IDENTIFIER", name)
Integer(text) == Token("INTEGER_LITERAL", text)
Float(text) == Token("FLOAT_LITERAL", text)
Str(text) == Token("STRING_LITERAL", text)

X == <<"x">>
Y == <<"y">>

\* a numeric lexeme beyond the range of double
Huge == <<"1", "e", "9", "9", "9">>

\* the tokens arbitrary streams are drawn from
Alphabet ==
    { Sym("VAR"), Ident(X), Sym("EQUAL"), Integer(<<"1">>), Sym("SEMICOLON"),
      Sym("LEFT_BRACE"), Sym("RIGHT_BRACE"), Sym("IF"), Sym("LEFT_PAREN"),
      Sym("RIGHT_PAREN") }

RECURSIVE Streams(_)
\* every token sequence of length at most k over Alphabet
Streams(k) ==
    IF k = 0 THEN {<<>>}
    ELSE LET shorter == Streams(k - 1) IN
         shorter \cup {Append(t, a) : t \in {u \in shorter : Len(u) = k - 1}, a \in Alphabet}

(***************************************************************************)
(* Programs: statements written out as the tokens the lexer produces for   *)
(* them, put one after the other.                                          *)
(***************************************************************************)
Number(text) == Integer(text)

\* x = <value> ;
SetX(text) == <<Ident(X), Sym("EQUAL"), Number(text), Sym("SEMICOLON")>>

StatementTokens(id) ==
    CASE id = "declX" -> <<Sym("VAR"), Ident(X), Sym("SEMICOLON")>>
      [] id = "declX1" ->
            <<Sym("VAR"), Ident(X), Sym("EQUAL"), Number(<<"1">>), Sym("SEMICOLON")>>
      [] id = "setX2" -> SetX(<<"2">>)
      [] id = "setX3" -> SetX(<<"3">>)
      [] id = "printCall" ->
            <<Ident(PrintName), Sym("LEFT_PAREN"), Ident(X), Sym("RIGHT_PAREN"),
              Sym("SEMICOLON")>>
      [] id = "printKw" ->
            <<Token("PRINT", PrintName), Sym("LEFT_PAREN"), Ident(X),
              Sym("RIGHT_PAREN"), Sym("SEMICOLON")>>
      [] id = "concatL" ->
            <<Str(<<"a">>), Sym("PLUS"), Number(<<"1">>), Sym("SEMICOLON")>>
      [] id = "concatR" ->
            <<Number(<<"1">>), Sym("PLUS"), Str(<<"a">>), Sym("SEMICOLON")>>
      [] id = "readY" -> <<Ident(Y), Sym("SEMICOLON")>>
      [] id = "blockY" ->
            <<Sym("LEFT_BRACE"), Sym("VAR"), Ident(Y), Sym("SEMICOLON"),
              Sym("RIGHT_BRACE")>>
      [] id = "ifLit" ->
            <<Sym("IF"), Sym("LEFT_PAREN"), Number(<<"1">>), Sym("RIGHT_PAREN")>>
                \o SetX(<<"2">>) \o <<Sym("ELSE")>> \o SetX(<<"3">>)
      [] id = "ifTrue" ->
            <<Sym("IF"), Sym("LEFT_PAREN"), Sym("TRUE"), Sym("RIGHT_PAREN")>>
                \o SetX(<<"2">>) \o <<Sym("ELSE")>> \o SetX(<<"3">>)
      [] id = "ifFalse" ->
            <<Sym("IF"), Sym("LEFT_PAREN"), Sym("FALSE"), Sym("RIGHT_PAREN")>>
                \o SetX(<<"2">>)
      [] id = "bad" -> <<Sym("EQUAL"), Sym("SEMICOLON")>>
      [] id = "badTarget" ->
            <<Number(<<"1">>), Sym("EQUAL"), Number(<<"2">>), Sym("SEMICOLON")>>
      [] id = "badBlock" ->
            <<Sym("LEFT_BRACE"), Sym("EQUAL"), Sym("SEMICOLON"), Sym("RIGHT_BRACE")>>
      [] id = "noSemi" -> <<Ident(X), Sym("EQUAL"), Number(<<"1">>)>>
      [] id = "huge" ->
            <<Sym("VAR"), Ident(X), Sym("EQUAL"), Number(Huge), Sym("SEMICOLON")>>
      [] id = "stray" -> <<Sym("EQUAL")>>
      [] id = "whileX" ->
            <<Sym("WHILE"), Sym("LEFT_PAREN"), Sym("TRUE"), Sym("RIGHT_PAREN")>>
                \o SetX(<<"2">>)
      [] id = "returnX" -> <<Sym("RETURN"), Ident(X), Sym("SEMICOLON")>>
      [] id = "constX" ->
            <<Sym("CONST"), Ident(X), Sym("EQUAL"), Number(<<"1">>), Sym("SEMICOLON")>>
      [] id = "forX" ->
            <<Sym("FOR"), Sym("LEFT_PAREN"), Sym("SEMICOLON"), Sym("SEMICOLON"),
              Sym("RIGHT_PAREN")>> \o SetX(<<"2">>)
      [] id = "forFull" ->
            <<Sym("FOR"), Sym("LEFT_PAREN"), Sym("VAR"), Ident(X), Sym("EQUAL"),
              Number(<<"1">>), Sym("SEMICOLON"), Ident(X), Sym("LESS"),
              Number(<<"3">>), Sym("SEMICOLON"), Ident(X), Sym("EQUAL"),
              Number(<<"2">>), Sym("RIGHT_PAREN"), Ident(Y), Sym("SEMICOLON")>>

\* the statements that are not well formed
Malformed == {"bad", "badTarget", "badBlock", "noSemi", "huge"}

\* programs exercising the parser's error recovery
RecoveryStatements ==
    {"declX", "setX2", "blockY", "readY"} \cup Malformed

\* programs in which a stray '=' is followed by statements that open with a
\* keyword synchronize() stops at
ResumeStatements ==
    {"stray", "declX", "ifFalse", "whileX", "returnX", "constX", "forX", "forFull",
     "readY"}

\* programs that are run after they are parsed
RunStatements ==
    {"declX1", "setX2", "setX3", "printCall", "printKw", "concatL", "concatR",
     "readY", "ifLit", "ifTrue", "ifFalse", "bad"}

RECURSIVE Programs(_, _)
\* every sequence of at most k statements drawn from ids
Programs(ids, k) ==
    IF k = 0 THEN {<<>>}
    ELSE LET shorter == Programs(ids, k - 1) IN
         shorter \cup {Append(p, id) : p \in {q \in shorter : Len(q) = k - 1}, id \in ids}

RECURSIVE ProgramTokens(_)
ProgramTokens(p) ==
    IF p = <<>> THEN <<>> ELSE StatementTokens(Head(p)) \o ProgramTokens(Tail(p))

\* the cursor position at which statement i of program p begins
RECURSIVE StartOf(_, _)
StartOf(p, i) ==
    IF i = 1 THEN 0 ELSE StartOf(p, i - 1) + Len(StatementTokens(p[i - 1]))

\* the statement  a op1 b op2 c ;  over these operands and operators
Operands == {Number(<<"1">>), Number(<<"2">>), Number(<<"3">>), Ident(X)}

BinaryOperators == {"OR", "AND", "EQUAL_EQUAL", "LESS", "PLUS", "MINUS", "STAR", "SLASH"}

ExpressionStreams ==
    {<<a, Sym(op1), b, Sym(op2), c, Sym("SEMICOLON")>> :
        a \in Operands, op1 \in BinaryOperators, b \in Operands,
        op2 \in BinaryOperators, c \in Operands}

InitInterpreter ==
    /\ ip = 0
    /\ variables = [n \in {} |-> NilV]
    /\ lastValue = IntV(0)
    /\ out = <<>>
    /\ fault = NoFault
    /\ branches = <<>>

InitParser(toks, templates) ==
    /\ tokens = toks \o <<EOF>>
    /\ prog = templates
    /\ current = 0
    /\ statements = <<>>
    /\ diagnostics = <<>>
    /\ starts = <<>>
    /\ caught = <<>>
    /\ pc = "parse"

Init ==
    /\ \E toks \in Streams(MaxLen) : InitParser(toks, <<>>)
    /\ InitInterpreter

InitProg ==
    /\ \/ \E p \in Programs(RecoveryStatements, MaxStmts) \cup Programs(RunStatements, MaxStmts) :
             InitParser(ProgramTokens(p), p)
       \/ \E toks \in ExpressionStreams : InitParser(toks, <<"expr">>)
    /\ InitInterpreter

InitResume ==
    /\ \E p \in Programs(ResumeStatements, MaxStmts) : InitParser(ProgramTokens(p), p)
    /\ InitInterpreter

\* the values a literal can hold
Values ==
    {IntV(i) : i \in -MaxInt..MaxInt}
        \cup {DoubleV(n, 2) : n \in -MaxInt..MaxInt}
        \cup {BoolV(TRUE), BoolV(FALSE), StringV(<<"a">>), NilV}

\* statement lists handed to interpret() directly: a op b ;
InitInterp ==
    /\ \E a \in Values, b \in Values, op \in {"SLASH", "PLUS"} :
          /\ statements = <<ExpressionStmt(BinaryExpr(LiteralExpr(a), op, LiteralExpr(b)))>>
    /\ tokens = <<EOF>>
    /\ prog = <<>>
    /\ current = 0
    /\ diagnostics = <<>>
    /\ starts = <<>>
    /\ caught = <<>>
    /\ pc = "interpret"
    /\ InitInterpreter

(***************************************************************************)
(* Parser::parse, one turn of its while loop per step.                     *)
(***************************************************************************)
ParseDeclaration ==
    /\ pc = "parse"
    /\ ~isAtEnd(current)
    /\ \E d \in {Parse("declaration", current)} :
       /\ d.exc = "none"
       /\ statements' = Append(statements, d.node)
       /\ starts' = Append(starts, current)
       /\ diagnostics' = diagnostics \o d.diags
       /\ current' = d.cur
    /\ UNCHANGED <<tokens, prog, caught, pc>>
    /\ UNCHANGED interpVars

ParseCatch ==
    /\ pc = "parse"
    /\ ~isAtEnd(current)
    /\ \E d \in {Parse("declaration", current)} :
       /\ d.exc # "none"
       /\ diagnostics' = diagnostics \o d.diags
       /\ caught' = Append(caught, [exc |-> d.exc, from |-> current, at |-> d.cur,
                                    reported |-> Len(d.diags)])
       /\ current' = synchronize(d.cur)
    /\ UNCHANGED <<tokens, prog, statements, starts, pc>>
    /\ UNCHANGED interpVars

ParseReturn ==
    /\ pc = "parse"
    /\ isAtEnd(current)
    /\ pc' = "interpret"
    /\ UNCHANGED parserVars
    /\ UNCHANGED interpVars

(***************************************************************************)
(* Interpreter::interpret, one turn of its for loop per step.              *)
(***************************************************************************)
InterpreterState ==
    [variables |-> variables, lastValue |-> lastValue, out |-> out,
     branches |-> branches, fault |-> fault]

Install(s) ==
    /\ variables' = s.variables
    /\ lastValue' = s.lastValue
    /\ out' = s.out
    /\ branches' = s.branches
    /\ fault' = s.fault

\* interpret() catching the fault of a statement and going on
AfterStatement_Continue(s) == "interpret"

\* where interpret() is after a statement left it in state s
AfterStatement(s) == IF Faulted(s) THEN "faulted" ELSE "interpret"

InterpretStatement ==
    /\ pc = "interpret"
    /\ ip < Len(statements)
    /\ \E s \in {execute(statements[ip + 1], InterpreterState)} :
       /\ ~Faulted(s)
       /\ Install(s)
       /\ pc' = AfterStatement(s)
    /\ ip' = ip + 1
    /\ UNCHANGED parserVars

InterpretFault ==
    /\ pc = "interpret"
    /\ ip < Len(statements)
    /\ \E s \in {execute(statements[ip + 1], InterpreterState)} :
       /\ Faulted(s)
       /\ Install(s)
       /\ pc' = AfterStatement(s)
    /\ ip' = ip + 1
    /\ UNCHANGED parserVars

InterpretReturn ==
    /\ pc = "interpret"
    /\ ip = Len(statements)
    /\ pc' = "done"
    /\ UNCHANGED parserVars
    /\ UNCHANGED interpVars

Next ==
    \/ ParseDeclaration
    \/ ParseCatch
    \/ ParseReturn
    \/ InterpretStatement
    \/ InterpretFault
    \/ InterpretReturn

Spec == Init /\ [][Next]_vars

SpecProg == InitProg /\ [][Next]_vars

SpecResume == InitResume /\ [][Next]_vars

NextInterp ==
    \/ InterpretStatement
    \/ InterpretFault
    \/ InterpretReturn

SpecInterp == InitInterp /\ [][NextInterp]_vars

(***************************************************************************)
(* Claims.                                                                 *)
(***************************************************************************)

\* C1: for every token sequence ending in one END_OF_FILE, parse() terminates
\* and returns its statement list: each turn of its loop, whether
\* declaration() returned or threw and synchronize() ran, moves the cursor
\* strictly forward and stays in the loop (no parse failure aborts it), the
\* cursor never passes the END_OF_FILE token, so the turns are finitely
\* many, the turn that finds the cursor at END_OF_FILE returns the list,
\* and from then on the cursor is at END_OF_FILE.
C1_ParseTerminatesAtEof ==
    /\ [][pc = "parse" /\ ~isAtEnd(current) => current' > current /\ pc' = "parse"]_vars
    /\ [][pc = "parse" /\ isAtEnd(current)
            => pc' = "interpret" /\ statements' = statements]_vars
    /\ [](current \in 0..(Len(tokens) - 1))
    /\ [](pc # "parse" => isAtEnd(current))

\* parse() has returned a statement list after a turn that threw
C1_Witness ==
    /\ pc = "interpret"
    /\ Len(caught) > 0
    /\ Len(statements) > 0
    /\ isAtEnd(current)

\* parse() has returned
Parsed == pc # "parse"

\* the broken statements C2 names: an invalid assignment target, a broken
\* statement inside a block, a missing terminator, a malformed statement
BrokenStatements == {"bad", "badTarget", "badBlock", "noSemi"}

\* the program is made of well-formed statements with the broken ones of C2
\* among them, no two broken ones next to each other
OfBrokenAndValid ==
    /\ prog # <<"expr">>
    /\ \A i \in DOMAIN prog : prog[i] \in BrokenStatements \/ prog[i] \notin Malformed
    /\ \A i \in DOMAIN prog :
          prog[i] \in Malformed /\ i + 1 \in DOMAIN prog => prog[i + 1] \notin Malformed

\* C2: for a token stream of valid statements with N malformed ones among
\* them, parse() records exactly N diagnostics: one per broken statement
\* and none for a valid one.
C2_OneDiagnosticPerBrokenStatement ==
    Parsed /\ OfBrokenAndValid
        => Len(diagnostics) = Cardinality({i \in DOMAIN prog : prog[i] \in BrokenStatements})

\* the one broken statement  { = ; }  has been parsed and left two diagnostics
C2_Witness ==
    /\ Parsed
    /\ prog = <<"badBlock">>
    /\ Len(diagnostics) = 2

\* statement i of the program is malformed and statement i + 1 is well formed
ValidAfterMalformed(i) ==
    /\ prog # <<"expr">>
    /\ i \in DOMAIN prog /\ i + 1 \in DOMAIN prog
    /\ prog[i] \in Malformed
    /\ prog[i + 1] \notin Malformed

\* some statement of the returned list was parsed from cursor position c on
ParsedFrom(c) == \E k \in DOMAIN starts : starts[k] = c

\* C3: a valid statement that directly follows a malformed one still parses:
\* synchronize() leaves the cursor at its first token, so it is in the list
\* parse() returns.
C3_ValidStatementAfterMalformedParses ==
    Parsed => \A i \in DOMAIN prog : ValidAfterMalformed(i) => ParsedFrom(StartOf(prog, i + 1))

\* x = 1  without its ';' followed by  var x ;  : parse() has returned and no
\* statement was parsed from the 'var'
C3_Witness ==
    /\ Parsed
    /\ prog = <<"noSemi", "declX">>
    /\ ~ParsedFrom(StartOf(prog, 2))
    /\ statements = <<>>

\* interpret() has returned or has been left by a fault
Ran == pc \in {"done", "faulted"}

\* s is an initial part of t
IsPrefix(s, t) == Len(s) <= Len(t) /\ SubSeq(t, 1, Len(s)) = s

\* the next top-level statement reads y, which is unbound
ReadsUnboundY ==
    /\ pc = "interpret"
    /\ ip < Len(statements)
    /\ statements[ip + 1] = ExpressionStmt(VariableExpr(Y))
    /\ Y \notin DOMAIN variables

\* C4: interpret() executes the top-level statements in list order; when
\* statement i faults (reading an unbound variable faults with "Undefined
\* variable") the fault leaves interpret(): no later statement is executed,
\* no later line is written, no later write to the environment happens, and
\* the lines and bindings written before remain.
C4_FaultStopsInterpret ==
    /\ [][ip' # ip => /\ ip' = ip + 1
                      /\ InterpreterState' = execute(statements[ip'], InterpreterState)]_vars
    /\ [][ReadsUnboundY => pc' = "faulted" /\ fault' = <<"Undefined variable: ", Y>>]_vars
    /\ [][fault # NoFault => UNCHANGED interpVars]_vars
    /\ [][IsPrefix(out, out') /\ DOMAIN variables \subseteq DOMAIN variables']_vars
    /\ [](fault # NoFault => pc = "faulted")

\* reading y faulted after x was bound, and the print after it never ran
C4_Witness ==
    /\ pc = "faulted"
    /\ prog = <<"declX1", "readY", "printCall">>
    /\ fault = <<"Undefined variable: ", Y>>
    /\ ip = 2 /\ Len(statements) = 3
    /\ X \in DOMAIN variables
    /\ out = <<>>

\* C9: no fault is silently discarded: whenever parse() catches an exception
\* and drops the statement, at least one diagnostic was recorded for it, and
\* whenever the interpreter meets an invalid operation the fault leaves
\* interpret().
C9_NoFaultSilentlyDiscarded ==
    /\ \A k \in DOMAIN caught : caught[k].reported >= 1
    /\ fault # NoFault => pc = "faulted"

\* var x = 1e999 ;  was dropped by parse() and no diagnostic was recorded
C9_Witness ==
    /\ Parsed
    /\ prog = <<"huge">>
    /\ caught = <<[exc |-> "out_of_range", from |-> 0, at |-> 4, reported |-> 0]>>
    /\ diagnostics = <<>>
    /\ statements = <<>>

\* the program is  var x = 1 ;  then assignments to x, then a print of x
DeclareAssignPrint ==
    /\ Len(prog) >= 2
    /\ prog[1] = "declX1"
    /\ prog[Len(prog)] \in {"printCall", "printKw"}
    /\ \A i \in 2..(Len(prog) - 1) : prog[i] \in {"setX2", "setX3"}

\* the text of the number most recently written to x by such a program
LastWritten ==
    LET written == prog[Len(prog) - 1] IN
    CASE written = "declX1" -> <<"1">>
      [] written = "setX2" -> <<"2">>
      [] written = "setX3" -> <<"3">>

\* C5: after  var x = 1 ;  and any assignments to x, print(x) writes exactly
\* one output line, the value most recently assigned, whether the parser
\* takes `print` as the PRINT keyword or as an identifier callee.
C5_PrintWritesLastAssigned ==
    Ran /\ DeclareAssignPrint => fault = NoFault /\ out = <<LastWritten>>

\* var x = 1 ; x = 2 ; print ( x ) ;  with PRINT as the keyword ran to its
\* end and wrote nothing
C5_Witness ==
    /\ pc = "done"
    /\ prog = <<"declX1", "setX2", "printKw">>
    /\ out = <<>>

\* C6: through parse and evaluation,  "a" + 1 ;  yields the string "a1" and
\* 1 + "a" ;  the string "1a", without a fault.
C6_StringPlusIntegerLiteral ==
    /\ Ran /\ prog = <<"concatL">>
          => fault = NoFault /\ lastValue = StringV(<<"a", "1">>)
    /\ Ran /\ prog = <<"concatR">>
          => fault = NoFault /\ lastValue = StringV(<<"1", "a">>)

\* "a" + 1 ;  was parsed into one statement whose right operand is a double,
\* and evaluating it faulted
C6_Witness ==
    /\ pc = "faulted"
    /\ prog = <<"concatL">>
    /\ Len(statements) = 1
    /\ statements[1].expression.right = LiteralExpr(DoubleV(1, 1))
    /\ fault = <<"Invalid operands to +">>

\* the binding level of a binary operator in the grammar, loosest first
Level(op) ==
    CASE op = "OR" -> 1
      [] op = "AND" -> 2
      [] op = "EQUAL_EQUAL" -> 3
      [] op = "LESS" -> 4
      [] op \in {"PLUS", "MINUS"} -> 5
      [] op \in {"STAR", "SLASH"} -> 6

\* the expression a single operand token stands for
OperandExpr(token) ==
    IF token.type = "IDENTIFIER" THEN VariableExpr(token.lexeme)
    ELSE LiteralExpr(DoubleV(DigitsValue(token.lexeme), 1))

\* the tree the grammar gives  a op1 b op2 c : op2 takes b when it binds
\* tighter than op1, otherwise op1 does
GrammarTree(toks) ==
    LET a == OperandExpr(toks[1])
        b == OperandExpr(toks[3])
        c == OperandExpr(toks[5])
        op1 == toks[2].type
        op2 == toks[4].type
    IN  IF Level(op2) > Level(op1)
        THEN BinaryExpr(a, op1, BinaryExpr(b, op2, c))
        ELSE BinaryExpr(BinaryExpr(a, op1, b), op2, c)

\* 1 + 2 * 3 ;
OnePlusTwoTimesThree ==
    <<Number(<<"1">>), Sym("PLUS"), Number(<<"2">>), Sym("STAR"), Number(<<"3">>),
      Sym("SEMICOLON"), EOF>>

\* C7: multiplicative operators bind tighter than additive ones, and each
\* binary level takes its operands from the next tighter level:  a + b * c ;
\* parses to Binary(+, a, Binary(*, b, c)), in general  a op1 b op2 c ;  to
\* the tree of the grammar, and  1 + 2 * 3 ;  evaluates to 7.
C7_TighterLevelTakesOperand ==
    /\ Parsed /\ prog = <<"expr">>
          => diagnostics = <<>> /\ statements = <<ExpressionStmt(GrammarTree(tokens))>>
    /\ Ran /\ tokens = OnePlusTwoTimesThree
          => fault = NoFault /\ lastValue = DoubleV(7, 1)

\* 1 + 2 * 3 ;  was parsed to 1 + (2 * 3) and evaluated to 7
C7_Witness ==
    /\ pc = "done"
    /\ tokens = OnePlusTwoTimesThree
    /\ statements[1].expression.op = "PLUS"
    /\ statements[1].expression.right.op = "STAR"
    /\ lastValue = DoubleV(7, 1)

\* both values are ints or both are doubles
SameNumericKind(a, b) == a.kind = b.kind /\ IsNum(a)

\* the zero of the value's kind
IsZero(v) == (v.kind = "int" /\ v.v = 0) \/ (v.kind = "double" /\ v.n = 0)

\* C8: for `/` the fault is decided by the operands: two numbers of the same
\* kind with a zero right operand fault with "Division by zero", operands
\* that are not numbers or not of the same kind fault with "Invalid operands",
\* also when the right one is zero, and two numbers of the same kind with a
\* nonzero right operand do not fault.
C8_SlashFaults ==
    Ran /\ ip = 1 /\ statements[1].expression.op = "SLASH"
        => LET left == statements[1].expression.left.value
               right == statements[1].expression.right.value
           IN  IF SameNumericKind(left, right)
               THEN IF IsZero(right) THEN fault = <<"Division by zero">>
                    ELSE fault = NoFault
               ELSE fault = <<"Invalid operands to /">>

\* an int divided by the int zero faulted with "Division by zero"
C8_Witness ==
    /\ pc = "faulted"
    /\ statements[1].expression.op = "SLASH"
    /\ statements[1].expression.left.value = IntV(MaxInt)
    /\ statements[1].expression.right.value = IntV(0)
    /\ fault = <<"Division by zero">>

\* the condition holds: boolean true or a nonzero int
Truthy(v) == (v.kind = "bool" /\ v.v) \/ (v.kind = "int" /\ v.v # 0)

\* the condition does not hold: boolean false or the int zero
Falsy(v) == (v.kind = "bool" /\ ~v.v) \/ (v.kind = "int" /\ v.v = 0)

\* C10: a conditional evaluates its condition once and executes exactly one
\* branch: the then-branch for boolean true or a nonzero integer, otherwise
\* the else-branch (nothing where no else clause is written); a condition of
\* another kind faults and executes no branch.  This holds for a condition
\* that is a numeric literal:  if ( 1 ) x = 2 ; else x = 3 ;  takes the
\* then-branch.
C10_ConditionalTakesOneBranch ==
    /\ \A k \in DOMAIN branches :
          LET b == branches[k] IN
          IF Truthy(b.cond) THEN b.taken = "then"
          ELSE IF Falsy(b.cond) THEN b.taken \in {"else", "none"}
          ELSE b.taken = "fault"
    /\ Ran /\ prog = <<"ifLit">>
          => /\ fault = NoFault
             /\ Len(branches) = 1
             /\ branches[1].taken = "then"

\* if ( 1 ) x = 2 ; else x = 3 ;  faulted on its condition, the double 1
C10_Witness ==
    /\ pc = "faulted"
    /\ prog = <<"ifLit">>
    /\ branches = <<[cond |-> DoubleV(1, 1), taken |-> "fault"]>>
    /\ fault = <<"Invalid condition in if statement">>
    /\ variables = [n \in {} |-> NilV]

(***************************************************************************)
(* Recovery at a statement-start keyword.                                  *)
(***************************************************************************)
\* the keywords synchronize() stops in front of
StatementStart == {"FUNCTION", "VAR", "CONST", "FOR", "IF", "WHILE", "RETURN"}

\* synchronize() returned with the cursor at c because the next token is a
\* statement-start keyword (and not because a ';' was just passed)
StoppedAtKeyword(c) ==
    /\ c > 0
    /\ ~isAtEnd(c)
    /\ previous(c).type # "SEMICOLON"
    /\ peek(c).type \in StatementStart

\* the parser's routine for the statement kind of the keyword at c, applied
\* to the tokens after the keyword (the parser has no routine for FUNCTION)
StatementOfKind(c) ==
    CASE check(c, "VAR") -> varDeclaration(advance(c), FALSE)
      [] check(c, "CONST") -> varDeclaration(advance(c), TRUE)
      [] check(c, "FOR") -> forStatement(advance(c))
      [] check(c, "IF") -> ifStatement(advance(c))
      [] check(c, "WHILE") -> whileStatement(advance(c))
      [] check(c, "RETURN") -> returnStatement(advance(c))
      [] OTHER -> Thrown("ParseError", c, <<>>)

\* the tokens from the keyword at c on form a well-formed statement of the
\* keyword's kind
WellFormedAt(c) ==
    LET r == StatementOfKind(c) IN r.exc = "none" /\ r.diags = <<>>

\* the cursor synchronize() returned with after the k-th caught exception
ResumedAt(k) == synchronize(caught[k].at)

\* C11: whenever synchronize() returns because the next token is a
\* statement-start keyword and the tokens from it on form a well-formed
\* statement of that kind, the next declaration() call parses that statement
\* from the keyword and records no further diagnostic.
C11_ParsingResumesAtKeyword ==
    \A k \in DOMAIN caught :
        StoppedAtKeyword(ResumedAt(k)) /\ WellFormedAt(ResumedAt(k))
                /\ current > ResumedAt(k)
            => /\ ParsedFrom(ResumedAt(k))
               /\ Parse("declaration", ResumedAt(k)).diags = <<>>

\* =  followed by  const x = 1 ;  : synchronize() stopped in front of
\* 'const', and parse() returned with no statement and a second diagnostic
C11_Witness ==
    /\ Parsed
    /\ prog = <<"stray", "constX">>
    /\ StoppedAtKeyword(ResumedAt(1)) /\ WellFormedAt(ResumedAt(1))
    /\ statements = <<>>
    /\ Len(diagnostics) = 2

(***************************************************************************)
(* The cursor.                                                             *)
(***************************************************************************)
\* the cursor value at which peek() is the END_OF_FILE token
EndIndex == Len(tokens) - 1

\* the cursor values with which previous() was called up to now.  previous()
\* is called by advance() after its increment, directly after a match() that
\* advanced, and by synchronize(): in a turn of parse() that began at c the
\* least such value is advance(c), and after an exception thrown at c the
\* values are synchronizeReads(c)
PreviousReads ==
    {advance(starts[k]) : k \in DOMAIN starts}
        \cup UNION {synchronizeReads(caught[k].at) : k \in DOMAIN caught}

\* C12: for a token sequence whose only END_OF_FILE token is its last
\* element, in every state of parse() the cursor is between 0 and the index
\* of END_OF_FILE, no step decreases it (nor does a turn's exception leave
\* it behind where the turn began, nor synchronize() behind where the
\* exception was thrown), advance() leaves it unchanged at END_OF_FILE and
\* moves it by one elsewhere, and previous() is only called with a cursor
\* of at least 1 and at most the index of END_OF_FILE.
C12_CursorInvariant ==
    /\ [](current \in 0..EndIndex)
    /\ [][current' >= current]_vars
    /\ [](\A k \in DOMAIN caught :
            /\ caught[k].from <= caught[k].at
            /\ caught[k].at <= synchronize(caught[k].at)
            /\ synchronize(caught[k].at) <= EndIndex)
    /\ [](\A c \in 0..EndIndex : advance(c) = IF c = EndIndex THEN c ELSE c + 1)
    /\ [](\A c \in PreviousReads : 1 <= c /\ c <= EndIndex)

\* a statement threw with the cursor at END_OF_FILE, so the advance() that
\* opens synchronize() was called there, and the cursor is still on it
C12_Witness ==
    /\ pc = "parse"
    /\ EndIndex >= 1
    /\ current = EndIndex
    /\ \E k \in DOMAIN caught :
          caught[k].at = EndIndex /\ EndIndex \in synchronizeReads(caught[k].at)

=============================================================================
